---- MODULE Spec2Model ----
(***************************************************************************)
(* Model of libgroove's playlist decoder engine (src/groove/playlist.c):   *)
(* the doubly linked item list, the decode worker (decode_thread), the     *)
(* sink map, the per-sink audio queues and the API calls that drive them.  *)
(***************************************************************************)
EXTENDS Integers, Sequences, FiniteSets, TLC

\* ------------------------------------------------------------------ bounds
MaxCalls == 3       \* playlist API calls in a run of Spec
FillCalls == 2      \* playlist API calls in a run of SpecFill (two sinks)
DeepCalls == 4      \* playlist API calls in a run of SpecDeep
FileLen == 2        \* audio packets per file: positions 0..FileLen-1
MaxQueue == 2       \* the worker is not scheduled while a queue holds more
MaxAttach == 3      \* sink-map stack entries: no attach beyond this many
MapSinkCount == 2   \* sinks of a run of SpecMap
MaxGroup == 2       \* sinks of the stack a buffer is put to in SpecRef
PauseCalls == 2     \* playlist API calls in a run of SpecPause
GraphCalls == 3     \* playlist API calls in a run of SpecGraph
FanCalls == 1       \* playlist API calls in a run of SpecFan
WaitCalls == 1      \* playlist API calls in a run of SpecWait
LockFileCount == 2  \* files whose seek_mutex the threads of SpecLock take

\* ------------------------------------------------------------- constants
Null == 0
FullVolume == 2     \* playlist->volume = 1.0, volumes counted in halves
FrameBytes == 1     \* frame_size() of every output frame

\* Items are numbered in the order of their allocation; ids are not reused.
MaxItems == IF DeepCalls > MaxCalls THEN DeepCalls ELSE MaxCalls
Volumes == {FullVolume - 1, FullVolume}
Gains == {1, 2}     \* item gains 1.0 and 2.0
ItemIds == 1..MaxItems
AllSinks == {"x", "y", "z", "r", "l", "c", "u", "v"}

\* The fields of a sink that groove_sink_attach and sink_formats_equal read.
\* z has x's format; y, r and l differ from x in sample_fmt, sample_rate and
\* channel_layout; c differs in buffer_sample_count; u and v disable
\* resampling and differ in their format.
SinkFields(size, count, disable, rate, layout, fmt) ==
  [buffer_size |-> size, buffer_sample_count |-> count,
   disable_resample |-> disable, sample_rate |-> rate,
   channel_layout |-> layout, sample_fmt |-> fmt]

SinkConf ==
  [s \in AllSinks |->
     CASE s = "x" -> SinkFields(2, 0, FALSE, 44100, "stereo", "s16")
       [] s = "y" -> SinkFields(1, 0, FALSE, 44100, "stereo", "flt")
       [] s = "z" -> SinkFields(1, 0, FALSE, 44100, "stereo", "s16")
       [] s = "r" -> SinkFields(1, 0, FALSE, 48000, "stereo", "s16")
       [] s = "l" -> SinkFields(1, 0, FALSE, 44100, "mono", "s16")
       [] s = "c" -> SinkFields(1, 1, FALSE, 44100, "stereo", "s16")
       [] s = "u" -> SinkFields(1, 0, TRUE, 44100, "stereo", "s16")
       [] s = "v" -> SinkFields(1, 0, TRUE, 48000, "mono", "flt")]

\* A queue element: a buffer (item, pos) or the end-of-queue sentinel.
end_of_q_sentinel == [item |-> Null, pos |-> -1]
NoBuf == [item |-> Null, pos |-> -2]

VARIABLES
  \* struct GroovePlaylist / GroovePlaylistItem
  head, tail, prev, next, live, nAlloc,
  \* struct GroovePlaylistPrivate
  decode_head, sent_end_of_q, abort_request, sink_map,
  \* struct GrooveFilePrivate of each item's file
  seek_pos, seek_flush, eof, rpos,
  \* struct GrooveSinkPrivate / GrooveSink / its GrooveQueue
  audioq, audioq_size, min_audioq_size, q_abort, sink_playlist, spc,
  \* control state: decode_thread, the API caller in clear/destroy, the
  \* playlist API calls left to the run
  pc, apc, clear_node, calls, crashed,
  \* the filter graph: filter_graph is non-null, the rebuild flag, the input
  \* parameters it was built for (in_sample_rate .. filter_volume), and per
  \* sink-map entry whether its abuffersink_ctx is a node of that graph
  filter_graph, rebuild_filter_graph_flag, in_format, abuffersink_ctx,
  \* whether the worker pulled frames from an entry without abuffersink_ctx
  null_ctx_pull,
  \* what the last groove_sink_attach / groove_sink_detach on each sink
  \* returned, and whether every_sink read a sink-map node after its free
  sink_ret, freed_node_read, unref_sentinel,
  \* the threads' calls of pthread_mutex_lock and pthread_mutex_unlock
  lock_todo, lock_held,
  \* one GrooveBuffer on its way through audio_decode_frame's fan-out: the
  \* worker's position, the stack items still to serve, GrooveBufferPrivate's
  \* ref_count, the sinks whose queue holds the buffer, the sinks whose
  \* consumer holds it, the sinks whose queue is aborted, how often the frame
  \* was released, and whether the buffer was used after its release
  buf_pc, buf_stack, ref_count, buf_queued, buf_held, buf_aborted, buf_freed,
  buf_uaf,
  \* GroovePlaylistPrivate's paused and last_paused, and which of
  \* groove_playlist_play / groove_playlist_pause was called last
  paused, last_paused, last_play_call,
  \* per item, whether its file was last told av_read_pause (not av_read_play)
  read_paused,
  \* playlist->volume, the volume the graph was built for, and whether the
  \* graph that filter_graph points to went through avfilter_graph_config
  volume, filter_volume, graph_configured,
  \* the gain of each playlist item, and the parameter of the graph's volume
  \* filter (Null: volume_ctx is NULL, the graph has no volume filter)
  gain, volume_ctx,
  \* GrooveFilePrivate's audio_clock of each item's file, and
  \* GroovePlaylistPrivate's sink_map_count
  audio_clock, sink_map_count,
  \* history: sentinels put per sink since decode_head last became non-null,
  \* last buffer put per sink, whether seek was called since that put, the
  \* sinks attached since decode_head last became non-null, and whether the
  \* last playlist call was a clear that emptied the list
  ends, lastB, seekSince, watch, cleared

listVars == <<head, tail, prev, next, live, nAlloc>>
fileVars == <<seek_pos, seek_flush, eof, rpos>>
sinkVars == <<audioq, audioq_size, min_audioq_size, q_abort, sink_playlist, spc>>
ctlVars == <<pc, apc, clear_node, calls, crashed>>
histVars == <<ends, lastB, seekSince, watch, cleared>>
graphVars == <<filter_graph, rebuild_filter_graph_flag, in_format,
              abuffersink_ctx, null_ctx_pull>>
callVars == <<sink_ret, freed_node_read, unref_sentinel>>
bufVars == <<buf_pc, buf_stack, ref_count, buf_queued, buf_held, buf_aborted,
            buf_freed, buf_uaf>>
playVars == <<paused, last_paused, last_play_call, read_paused>>
mixVars == <<volume, filter_volume, graph_configured, gain, volume_ctx>>
lockVars == <<lock_todo, lock_held>>
vars == <<listVars, decode_head, sent_end_of_q, abort_request, sink_map,
          fileVars, sinkVars, ctlVars, histVars, graphVars, callVars, bufVars,
          playVars, mixVars, audio_clock, sink_map_count, lockVars>>

\* The sinks of the run: those that groove_sink_create has made.
Sinks == DOMAIN spc

\* ------------------------------------------------------------ sequences
Range(f) == {f[k] : k \in DOMAIN f}

RECURSIVE Flatten(_)
Flatten(ss) == IF ss = <<>> THEN <<>> ELSE Head(ss) \o Flatten(Tail(ss))

\* audioq_cleanup of one queue element: the bytes taken off audioq_size and
\* whether groove_buffer_unref is called on it.
audioq_cleanup_Unguarded(b) == [bytes |-> FrameBytes, unref |-> TRUE]

audioq_cleanup(b) ==
  IF b = end_of_q_sentinel THEN [bytes |-> 0, unref |-> FALSE]
  ELSE [bytes |-> FrameBytes, unref |-> TRUE]

\* groove_queue_flush: audioq_cleanup on every element of the queue.
RECURSIVE SumBytes(_)
SumBytes(q) ==
  IF q = <<>> THEN 0
  ELSE audioq_cleanup(Head(q)).bytes + SumBytes(Tail(q))

UnrefsSentinel(q) ==
  \E j \in DOMAIN q : q[j] = end_of_q_sentinel /\ audioq_cleanup(q[j]).unref

\* ------------------------------------------------------------ the list
\* Items reachable from `from` by following next, in order.
RECURSIVE Chain(_, _)
Chain(from, fuel) ==
  IF from = Null \/ fuel = 0 THEN <<>>
  ELSE <<from>> \o Chain(next[from], fuel - 1)

ListSeq == Chain(head, MaxItems + 1)
ListItems == Range(ListSeq)
After(i) == IF i = Null THEN {} ELSE Range(Chain(next[i], MaxItems + 1))

groove_playlist_count == Len(ListSeq)

\* --------------------------------------------------------- the sink map
MapSeq == Flatten(sink_map)
MapSinks == Range(MapSeq)

\* Mutant of sink_formats_equal: the channel layouts are not compared.
sink_formats_equal_NoLayout(a, b) ==
  IF SinkConf[a].buffer_sample_count # SinkConf[b].buffer_sample_count THEN FALSE
  ELSE IF SinkConf[a].disable_resample THEN SinkConf[b].disable_resample
  ELSE IF SinkConf[b].disable_resample THEN FALSE
  ELSE /\ SinkConf[a].sample_rate = SinkConf[b].sample_rate
       /\ SinkConf[a].sample_fmt = SinkConf[b].sample_fmt

sink_formats_equal(a, b) ==
  IF SinkConf[a].buffer_sample_count # SinkConf[b].buffer_sample_count THEN FALSE
  ELSE IF SinkConf[a].disable_resample THEN SinkConf[b].disable_resample
  ELSE IF SinkConf[b].disable_resample THEN FALSE
  ELSE /\ SinkConf[a].sample_rate = SinkConf[b].sample_rate
       /\ SinkConf[a].channel_layout = SinkConf[b].channel_layout
       /\ SinkConf[a].sample_fmt = SinkConf[b].sample_fmt

\* every_sink: the first value that differs from default_value, else it.
RECURSIVE every_sink(_, _)
every_sink(values, default_value) ==
  IF values = <<>> THEN default_value
  ELSE IF Head(values) # default_value THEN Head(values)
  ELSE every_sink(Tail(values), default_value)

\* Mutant of sink_is_full: a sink exactly at its threshold is not yet full.
sink_is_full_above(s) == IF audioq_size[s] > min_audioq_size[s] THEN 1 ELSE 0

sink_is_full(s) == IF audioq_size[s] >= min_audioq_size[s] THEN 1 ELSE 0

every_sink_full ==
  every_sink([k \in DOMAIN MapSeq |-> sink_is_full(MapSeq[k])], 1) = 1

add_sink_to_map(map, s) ==
  LET hit == {k \in DOMAIN map : sink_formats_equal(Head(map[k]), s)} IN
  IF hit # {}
    THEN LET k == CHOOSE m \in hit : \A n \in hit : m <= n
         IN [map EXCEPT ![k] = <<s>> \o map[k]]
    ELSE <<(<<s>>)>> \o map

RemoveFirst(stack, s) ==
  LET k == CHOOSE m \in DOMAIN stack :
             stack[m] = s /\ \A n \in DOMAIN stack : stack[n] = s => m <= n
  IN SubSeq(stack, 1, k - 1) \o SubSeq(stack, k + 1, Len(stack))

remove_sink_from_map(map, s) ==
  LET hit == {k \in DOMAIN map : s \in Range(map[k])} IN
  IF hit = {} THEN map
  ELSE LET k == CHOOSE m \in hit : \A n \in hit : m <= n
           rest == RemoveFirst(map[k], s)
       IN IF rest = <<>>
            THEN SubSeq(map, 1, k - 1) \o SubSeq(map, k + 1, Len(map))
            ELSE [map EXCEPT ![k] = rest]

\* The abuffersink_ctx of the map entries after add_sink_to_map: a new entry
\* is av_mallocz'ed, so its abuffersink_ctx is NULL.
add_sink_ctx(map, ctx, s) ==
  IF \E k \in DOMAIN map : sink_formats_equal(Head(map[k]), s) THEN ctx
  ELSE <<FALSE>> \o ctx

\* ... and after remove_sink_from_map, which frees an entry left empty.
remove_sink_ctx(map, ctx, s) ==
  LET hit == {k \in DOMAIN map : s \in Range(map[k])} IN
  IF hit = {} THEN ctx
  ELSE LET k == CHOOSE m \in hit : \A n \in hit : m <= n
       IN IF RemoveFirst(map[k], s) = <<>>
            THEN SubSeq(ctx, 1, k - 1) \o SubSeq(ctx, k + 1, Len(ctx))
            ELSE ctx

\* p->sink_map_count after add_sink_to_map: a new entry counts one more.
add_sink_count(map, n, s) ==
  IF \E k \in DOMAIN map : sink_formats_equal(Head(map[k]), s) THEN n
  ELSE n + 1

\* ... and after remove_sink_from_map: a freed entry counts one less.
remove_sink_count(map, n, s) ==
  LET hit == {k \in DOMAIN map : s \in Range(map[k])} IN
  IF hit = {} THEN n
  ELSE LET k == CHOOSE m \in hit : \A n2 \in hit : m <= n2
       IN IF RemoveFirst(map[k], s) = <<>> THEN n - 1 ELSE n

\* The stream parameters of an item's file: the values
\* maybe_init_filter_graph compares with the cached ones.  Files alternate
\* between two parameter sets.
ItemFormat(i) == 1 + (i % 2)

\* Mutant of PVolume: the gain of the item is left out.
PVolume_NoGain(d) == volume

\* p->volume = p->decode_head->gain * playlist->volume, as decode_thread
\* sets it before each decode_one_frame.
PVolume(d) == gain[d] * volume

\* init_filter_graph: vol is p->volume clamped to [0, 1]; the volume filter
\* is created with it unless it is 1.0.
VolumeNode(v) ==
  LET vol == IF v > FullVolume THEN FullVolume ELSE IF v < 0 THEN 0 ELSE v
  IN IF vol = FullVolume THEN Null ELSE vol

\* Mutant of maybe_init_filter_graph: the volume is not compared.
maybe_init_filter_graph_NoVolume(d) ==
  ~filter_graph \/ rebuild_filter_graph_flag \/ in_format # ItemFormat(d)

\* maybe_init_filter_graph: whether the graph is (re)built for item d.
maybe_init_filter_graph(d) ==
  \/ ~filter_graph \/ rebuild_filter_graph_flag
  \/ in_format # ItemFormat(d)
  \/ PVolume(d) # filter_volume

\* ------------------------------------------------- the queue (queue.c)
\* groove_queue_put: appends and runs audioq_put, unless the queue is aborted.
QueuePut(q, aborted, obj) == IF aborted THEN q ELSE Append(q, obj)

\* pthread_cond_signal on a condition the worker may be blocked on.
Signalled(p, cond) == IF p = cond THEN "top" ELSE p

WorkerHoldsMutex == pc \in {"wait_head", "wait_drain", "decode"}

\* groove_playlist_create: p->sent_end_of_q = 1.
LockThreads == {"worker", "caller1", "caller2"}

InitSentEndOfQ_Zero == FALSE

InitSentEndOfQ == TRUE

InitWith(budget, sinks) ==
  /\ head = Null /\ tail = Null
  /\ prev = [i \in ItemIds |-> Null] /\ next = [i \in ItemIds |-> Null]
  /\ live = {} /\ nAlloc = 0
  /\ decode_head = Null
  /\ sent_end_of_q = InitSentEndOfQ
  /\ abort_request = FALSE
  /\ sink_map = <<>>
  /\ seek_pos = [i \in ItemIds |-> -1]
  /\ seek_flush = [i \in ItemIds |-> FALSE]
  /\ eof = [i \in ItemIds |-> FALSE]
  /\ rpos = [i \in ItemIds |-> 0]
  /\ audioq = [s \in sinks |-> <<>>]
  /\ audioq_size = [s \in sinks |-> 0]
  /\ min_audioq_size = [s \in sinks |-> 0]
  /\ q_abort = [s \in sinks |-> FALSE]
  /\ sink_playlist = [s \in sinks |-> FALSE]
  /\ spc = [s \in sinks |-> "idle"]
  /\ pc = "top" /\ apc = "idle" /\ clear_node = Null /\ calls = budget
  /\ crashed = FALSE
  /\ filter_graph = FALSE /\ rebuild_filter_graph_flag = FALSE
  /\ in_format = Null /\ abuffersink_ctx = <<>>
  /\ null_ctx_pull = FALSE
  /\ sink_ret = [s \in sinks |-> <<"none", 0>>]
  /\ freed_node_read = FALSE
  /\ unref_sentinel = FALSE
  /\ lock_todo = [t \in LockThreads |-> <<>>]
  /\ lock_held = [t \in LockThreads |-> {}]
  /\ paused = FALSE /\ last_paused = FALSE /\ last_play_call = "none"
  /\ read_paused = [i \in ItemIds |-> FALSE]
  /\ volume = FullVolume /\ filter_volume = Null /\ graph_configured = FALSE
  /\ gain = [i \in ItemIds |-> 1] /\ volume_ctx = Null
  /\ audio_clock = [i \in ItemIds |-> 0]
  /\ sink_map_count = 0
  /\ buf_pc = "none" /\ buf_stack = <<>> /\ ref_count = 0
  /\ buf_queued = {} /\ buf_held = {} /\ buf_aborted = {}
  /\ buf_freed = 0 /\ buf_uaf = FALSE
  /\ ends = [s \in sinks |-> 0]
  /\ lastB = [s \in sinks |-> NoBuf]
  /\ seekSince = [s \in sinks |-> FALSE]
  /\ watch = {}
  /\ cleared = FALSE

Init == InitWith(MaxCalls, {"x"})
InitFill == InitWith(FillCalls, {"x", "y"})
InitDeep == InitWith(DeepCalls, {"x"})

\* ------------------------------------------------------- playlist API
\* The sinks whose attach has returned and whose detach has not begun.
Attached == {s \in MapSinks : spc[s] = "idle"}

\* Callers block on decode_head_mutex while the worker holds it.
CanLock == ~crashed /\ ~WorkerHoldsMutex

\* The body of groove_playlist_remove(item), decode_head_mutex held.
\* purge_sink reads sink->playlist->purge_item: a sink that is in the map
\* while its playlist pointer is still NULL makes that a NULL dereference.
RemoveItem(item) ==
  IF \E s \in MapSinks : ~sink_playlist[s]
  THEN /\ crashed' = TRUE
       /\ UNCHANGED <<head, tail, prev, next, live, decode_head, audioq,
                      audioq_size, pc, lockVars>>
  ELSE
    /\ crashed' = FALSE
    /\ decode_head' = IF item = decode_head THEN next[item] ELSE decode_head
    /\ next' = IF prev[item] # Null
                 THEN [next EXCEPT ![prev[item]] = next[item]] ELSE next
    /\ head' = IF prev[item] # Null THEN head ELSE next[item]
    /\ prev' = IF next[item] # Null
                 THEN [prev EXCEPT ![next[item]] = prev[item]] ELSE prev
    /\ tail' = IF next[item] # Null THEN tail ELSE prev[item]
    /\ audioq' = [s \in Sinks |->
         IF s \in MapSinks
           THEN SelectSeq(audioq[s],
                  LAMBDA b : b = end_of_q_sentinel \/ b.item # item)
           ELSE audioq[s]]
    /\ audioq_size' = [s \in Sinks |->
         IF s \in MapSinks
           THEN audioq_size[s] - FrameBytes *
                  Len(SelectSeq(audioq[s],
                    LAMBDA b : b # end_of_q_sentinel /\ b.item = item))
           ELSE audioq_size[s]]
    /\ pc' = Signalled(pc, "blocked_drain")
    /\ live' = live \ {item}

groove_playlist_insert(nx) ==
  /\ CanLock /\ apc = "idle"
  /\ calls > 0 /\ calls' = calls - 1
  /\ LET item == nAlloc + 1
         emptyList == nx = Null /\ head = Null
     IN
     /\ nAlloc' = item
     /\ live' = live \cup {item}
     /\ IF nx # Null
        THEN IF prev[nx] # Null
             THEN /\ prev' = [prev EXCEPT ![item] = prev[nx], ![nx] = item]
                  /\ next' = [next EXCEPT ![item] = nx, ![prev[nx]] = item]
                  /\ UNCHANGED <<head, tail>>
             ELSE /\ head' = item
                  /\ next' = [next EXCEPT ![item] = nx]
                  /\ prev' = [prev EXCEPT ![item] = Null]
                  /\ UNCHANGED tail
        ELSE IF head = Null
             THEN /\ head' = item /\ tail' = item
                  /\ next' = [next EXCEPT ![item] = Null]
                  /\ prev' = [prev EXCEPT ![item] = Null]
             ELSE /\ prev' = [prev EXCEPT ![item] = tail]
                  /\ next' = [next EXCEPT ![item] = Null, ![tail] = item]
                  /\ tail' = item
                  /\ UNCHANGED head
     /\ seek_pos' = IF emptyList THEN [seek_pos EXCEPT ![item] = 0] ELSE seek_pos
     /\ seek_flush' = IF emptyList THEN [seek_flush EXCEPT ![item] = FALSE]
                      ELSE seek_flush
     /\ decode_head' = IF emptyList THEN item ELSE decode_head
     /\ pc' = IF emptyList THEN Signalled(pc, "blocked_head") ELSE pc
     /\ ends' = IF emptyList THEN [s \in Sinks |-> 0] ELSE ends
     /\ watch' = IF emptyList THEN Attached ELSE watch
     /\ cleared' = FALSE
  /\ UNCHANGED <<graphVars, callVars, bufVars, playVars, mixVars, audio_clock,
                 sink_map_count,
                 sent_end_of_q, abort_request, sink_map, eof, rpos, sinkVars,
                 apc, clear_node, crashed, lastB, seekSince, lockVars>>

groove_playlist_remove(item) ==
  /\ CanLock /\ apc = "idle"
  /\ calls > 0 /\ calls' = calls - 1
  /\ RemoveItem(item)
  /\ UNCHANGED <<graphVars, callVars, bufVars, playVars, mixVars, audio_clock,
                 sink_map_count,
                 nAlloc, sent_end_of_q, abort_request, sink_map, fileVars,
                 min_audioq_size, q_abort, sink_playlist, spc,
                 apc, clear_node, histVars, lockVars>>

\* Mutant of SeekTarget: the target is taken relative to a pending request.
SeekTarget_Relative(item, seconds) ==
  IF seek_pos[item] >= 0 THEN seek_pos[item] + seconds ELSE seconds

\* ts = seconds * time_base.den / time_base.num (+ start_time): positions are
\* counted in packets of one second, files start at 0.
SeekTarget(item, seconds) == (seconds * 1) \div 1 + 0

groove_playlist_seek(item, ts) ==
  /\ CanLock /\ apc = "idle"
  /\ calls > 0 /\ calls' = calls - 1
  /\ seek_pos' = [seek_pos EXCEPT ![item] = SeekTarget(item, ts)]
  /\ seek_flush' = [seek_flush EXCEPT ![item] = TRUE]
  /\ decode_head' = item
  /\ pc' = Signalled(pc, "blocked_head")
  /\ ends' = [s \in Sinks |-> 0]
  /\ seekSince' = [s \in Sinks |-> TRUE]
  /\ watch' = Attached
  /\ cleared' = FALSE
  /\ UNCHANGED <<graphVars, callVars, bufVars, playVars, mixVars, audio_clock,
                 sink_map_count,
                 listVars, sent_end_of_q, abort_request, sink_map, eof, rpos,
                 sinkVars, apc, clear_node, crashed, lastB, lockVars>>

\* Reading an item that remove has freed is undefined: the reader either
\* sees the stale contents or faults.
UseAfterFree(item) == IF item \in live THEN {FALSE} ELSE BOOLEAN

\* groove_playlist_clear: node = head; remove(node) for each node, reading
\* node->next before the node is removed.
groove_playlist_clear ==
  /\ ~crashed /\ apc = "idle"
  /\ calls > 0 /\ calls' = calls - 1
  /\ apc' = IF head = Null THEN "idle" ELSE "clear"
  /\ clear_node' = head
  /\ UNCHANGED <<graphVars, callVars, bufVars, playVars, mixVars, audio_clock,
                 sink_map_count,
                 listVars, decode_head, sent_end_of_q, abort_request, sink_map,
                 fileVars, sinkVars, pc, crashed, histVars, lockVars>>

ClearStep ==
  /\ CanLock /\ apc \in {"clear", "dclear"}
  /\ \E fault \in UseAfterFree(clear_node) :
       IF fault
       THEN /\ crashed' = TRUE
            /\ UNCHANGED <<head, tail, prev, next, live, decode_head, audioq,
                           audioq_size, pc, apc, clear_node, cleared>>
       ELSE /\ RemoveItem(clear_node)
            /\ clear_node' = next[clear_node]
            /\ apc' = IF next[clear_node] # Null THEN apc
                      ELSE IF apc = "clear" THEN "idle" ELSE "abort"
            /\ cleared' = (cleared \/ (apc = "clear" /\ apc' = "idle" /\ ~crashed'))
  /\ UNCHANGED <<graphVars, callVars, bufVars, playVars, mixVars, audio_clock,
                 sink_map_count,
                 nAlloc, sent_end_of_q, abort_request, sink_map, fileVars,
                 min_audioq_size, q_abort, sink_playlist, spc, calls,
                 ends, lastB, seekSince, watch, lockVars>>

\* groove_playlist_destroy: clear, then abort_request = 1, signal both
\* conditions (decode_head_mutex not held), then join the worker.
DestroyClear ==
  /\ ~crashed /\ apc = "idle"
  /\ calls > 0 /\ calls' = calls - 1
  /\ apc' = IF head = Null THEN "abort" ELSE "dclear"
  /\ clear_node' = head
  /\ UNCHANGED <<graphVars, callVars, bufVars, playVars, mixVars, audio_clock,
                 sink_map_count,
                 listVars, decode_head, sent_end_of_q, abort_request, sink_map,
                 fileVars, sinkVars, pc, crashed, histVars, lockVars>>

DestroyAbort ==
  /\ ~crashed /\ apc = "abort"
  /\ abort_request' = TRUE
  /\ pc' = Signalled(Signalled(pc, "blocked_head"), "blocked_drain")
  /\ apc' = "join"
  /\ UNCHANGED <<graphVars, callVars, bufVars, playVars, mixVars, audio_clock,
                 sink_map_count,
                 listVars, decode_head, sent_end_of_q, sink_map, fileVars,
                 sinkVars, clear_node, calls, crashed, histVars, lockVars>>

DestroyJoin ==
  /\ ~crashed /\ apc = "join" /\ pc = "exited"
  /\ apc' = "joined"
  /\ UNCHANGED <<graphVars, callVars, bufVars, playVars, mixVars, audio_clock,
                 sink_map_count,
                 listVars, decode_head, sent_end_of_q, abort_request, sink_map,
                 fileVars, sinkVars, pc, clear_node, calls, crashed, histVars, lockVars>>

\* ------------------------------------------------------------- sinks
Destroying == apc \in {"dclear", "abort", "join", "joined", "destroyed"}

\* groove_sink_attach up to the unlock: min_audioq_size, add_sink_to_map and
\* the signal of sink_drain_cond.
AttachToMap(s) ==
  /\ CanLock /\ ~Destroying
  /\ spc[s] = "idle"
  /\ Len(MapSeq) < MaxAttach
  /\ min_audioq_size' =
       [min_audioq_size EXCEPT ![s] = SinkConf[s].buffer_size * FrameBytes]
  /\ sink_map' = add_sink_to_map(sink_map, s)
  /\ abuffersink_ctx' = add_sink_ctx(sink_map, abuffersink_ctx, s)
  /\ sink_map_count' = add_sink_count(sink_map, sink_map_count, s)
  /\ pc' = Signalled(pc, "blocked_drain")
  /\ spc' = [spc EXCEPT ![s] = "attach"]
  /\ UNCHANGED <<filter_graph, rebuild_filter_graph_flag, in_format,
                 null_ctx_pull, callVars, bufVars, playVars, mixVars, audio_clock,
                 listVars, decode_head, sent_end_of_q, abort_request, fileVars,
                 audioq, audioq_size, q_abort, sink_playlist,
                 apc, clear_node, calls, crashed, histVars, lockVars>>

\* groove_sink_attach(s) by a caller that attaches detached sinks only.
AttachMap(s) == ~sink_playlist[s] /\ AttachToMap(s)

\* groove_sink_attach(s) on a sink that is attached: the function has no
\* check of sink->playlist, the call runs as any other.
AttachAgain(s) == sink_playlist[s] /\ AttachToMap(s)

\* groove_sink_attach after the unlock: groove_queue_reset, sink->playlist.
AttachFinish(s) ==
  /\ ~crashed
  /\ spc[s] = "attach"
  /\ q_abort' = [q_abort EXCEPT ![s] = FALSE]
  /\ sink_playlist' = [sink_playlist EXCEPT ![s] = TRUE]
  /\ spc' = [spc EXCEPT ![s] = "idle"]
  /\ sink_ret' = [sink_ret EXCEPT ![s] = <<"attach", 0>>]
  /\ UNCHANGED <<graphVars, freed_node_read, unref_sentinel, bufVars, playVars, mixVars, audio_clock,
                 sink_map_count,
                 listVars, decode_head, sent_end_of_q, abort_request, sink_map,
                 fileVars, audioq, audioq_size, min_audioq_size,
                 pc, apc, clear_node, calls, crashed, histVars, lockVars>>

\* Mutant of DetachRefused: groove_sink_detach does not look at the playlist.
DetachRefused_Never(s) == FALSE

\* if (!playlist) return -1;
DetachRefused(s) == ~sink_playlist[s]

\* groove_sink_detach on a sink whose playlist is NULL.
DetachNotAttached(s) ==
  /\ ~crashed
  /\ spc[s] \in {"idle", "attach"} /\ DetachRefused(s)
  /\ sink_ret' = [sink_ret EXCEPT ![s] = <<"detach", -1>>]
  /\ UNCHANGED <<listVars, decode_head, sent_end_of_q, abort_request, sink_map,
                 fileVars, sinkVars, ctlVars, histVars, graphVars,
                 freed_node_read, unref_sentinel, bufVars, playVars, mixVars, audio_clock,
                 sink_map_count, lockVars>>

\* groove_sink_detach before the lock: groove_queue_abort, groove_queue_flush.
DetachFlush(s) ==
  /\ ~crashed /\ ~Destroying
  /\ spc[s] = "idle" /\ ~DetachRefused(s)
  /\ q_abort' = [q_abort EXCEPT ![s] = TRUE]
  /\ audioq' = [audioq EXCEPT ![s] = <<>>]
  /\ audioq_size' = [audioq_size EXCEPT ![s] = @ - SumBytes(audioq[s])]
  /\ unref_sentinel' = (unref_sentinel \/ UnrefsSentinel(audioq[s]))
  /\ spc' = [spc EXCEPT ![s] = "detach"]
  /\ watch' = watch \ {s}
  /\ UNCHANGED <<graphVars, sink_ret, freed_node_read, bufVars, playVars, mixVars, audio_clock,
                 sink_map_count,
                 listVars, decode_head, sent_end_of_q, abort_request, sink_map,
                 fileVars, min_audioq_size, sink_playlist,
                 pc, apc, clear_node, calls, crashed, ends, lastB, seekSince, cleared, lockVars>>

\* groove_sink_detach from the lock on: remove_sink_from_map, playlist = NULL.
DetachMap(s) ==
  /\ CanLock
  /\ spc[s] = "detach"
  /\ sink_map' = remove_sink_from_map(sink_map, s)
  /\ abuffersink_ctx' = remove_sink_ctx(sink_map, abuffersink_ctx, s)
  /\ sink_map_count' = remove_sink_count(sink_map, sink_map_count, s)
  /\ sink_playlist' = [sink_playlist EXCEPT ![s] = FALSE]
  /\ spc' = [spc EXCEPT ![s] = "idle"]
  /\ sink_ret' = [sink_ret EXCEPT ![s] =
                    <<"detach", IF s \in MapSinks THEN 0 ELSE -1>>]
  /\ UNCHANGED <<filter_graph, rebuild_filter_graph_flag, in_format,
                 null_ctx_pull, freed_node_read, unref_sentinel, bufVars, playVars, mixVars,
                 audio_clock,
                 listVars, decode_head, sent_end_of_q, abort_request, fileVars,
                 audioq, audioq_size, min_audioq_size, q_abort,
                 pc, apc, clear_node, calls, crashed, histVars, lockVars>>

\* groove_playlist_destroy after the join: every_sink(playlist,
\* groove_sink_detach, 0), one turn of its loop per step.  The detach of
\* stack_item->sink frees stack_item, and map_item with its last stack item;
\* every_sink then reads stack_item->next and map_item->next from them: it
\* faults, or it finds the stale pointers and goes on with the node that is
\* now first in the map.  A detach that returns -1 ends the traversal.
DestroyDetach ==
  /\ ~crashed /\ apc = "joined"
  /\ \A s \in MapSinks : spc[s] # "detach"
  /\ IF sink_map = <<>>
     THEN /\ apc' = "destroyed"
          /\ UNCHANGED <<sink_map, abuffersink_ctx, audioq, audioq_size, q_abort,
                         sink_playlist, sink_ret, freed_node_read, unref_sentinel, crashed,
                         watch, sink_map_count>>
     ELSE LET s == Head(Head(sink_map)) IN
          IF DetachRefused(s)
          THEN /\ apc' = "destroyed"
               /\ sink_ret' = [sink_ret EXCEPT ![s] = <<"detach", -1>>]
               /\ UNCHANGED <<sink_map, abuffersink_ctx, audioq, audioq_size,
                              q_abort, sink_playlist, freed_node_read, unref_sentinel, crashed,
                              watch, sink_map_count>>
          ELSE \E fault \in BOOLEAN :
               /\ q_abort' = [q_abort EXCEPT ![s] = TRUE]
               /\ audioq' = [audioq EXCEPT ![s] = <<>>]
               /\ audioq_size' =
                    [audioq_size EXCEPT ![s] = @ - SumBytes(audioq[s])]
               /\ sink_map' = remove_sink_from_map(sink_map, s)
               /\ abuffersink_ctx' = remove_sink_ctx(sink_map, abuffersink_ctx, s)
               /\ sink_map_count' =
                    remove_sink_count(sink_map, sink_map_count, s)
               /\ sink_playlist' = [sink_playlist EXCEPT ![s] = FALSE]
               /\ sink_ret' = [sink_ret EXCEPT ![s] = <<"detach", 0>>]
               /\ watch' = watch \ {s}
               /\ freed_node_read' = TRUE
               /\ unref_sentinel' =
                    (unref_sentinel \/ UnrefsSentinel(audioq[s]))
               /\ crashed' = fault
               /\ apc' = apc
  /\ UNCHANGED <<listVars, decode_head, sent_end_of_q, abort_request, fileVars,
                 min_audioq_size, spc, pc, clear_node, calls,
                 ends, lastB, seekSince, cleared,
                 filter_graph, rebuild_filter_graph_flag, in_format,
                 null_ctx_pull, bufVars, playVars, mixVars, audio_clock, lockVars>>

\* groove_sink_buffer_get on a non-empty queue: groove_queue_get runs
\* audioq_get under the queue's mutex; decode_head_mutex is not taken.
\* audioq_get signals through sink->playlist, a NULL dereference while the
\* attach has not stored it yet.
audioq_get_Locking == WorkerHoldsMutex

\* Whether the get has to wait for decode_head_mutex: audioq_get calls
\* pthread_cond_signal and never pthread_mutex_lock.
audioq_get_Waits == FALSE

groove_sink_buffer_get(s) ==
  /\ ~crashed /\ ~audioq_get_Waits
  /\ audioq[s] # <<>> /\ ~q_abort[s]
  /\ LET b == Head(audioq[s])
         size == IF b = end_of_q_sentinel THEN audioq_size[s]
                 ELSE audioq_size[s] - FrameBytes
         signal == b # end_of_q_sentinel /\ size < min_audioq_size[s]
     IN /\ audioq' = [audioq EXCEPT ![s] = Tail(@)]
        /\ audioq_size' = [audioq_size EXCEPT ![s] = size]
        /\ crashed' = (signal /\ ~sink_playlist[s])
        /\ pc' = IF signal /\ sink_playlist[s]
                   THEN Signalled(pc, "blocked_drain") ELSE pc
  /\ UNCHANGED <<graphVars, callVars, bufVars, playVars, mixVars, audio_clock,
                 sink_map_count,
                 listVars, decode_head, sent_end_of_q, abort_request, sink_map,
                 fileVars, min_audioq_size, q_abort, sink_playlist, spc,
                 apc, clear_node, calls, histVars, lockVars>>

\* ----------------------------------------------------- decode_thread
\* while (!p->abort_request)
WTop ==
  /\ ~crashed /\ pc = "top"
  /\ pc' = IF abort_request THEN "exited" ELSE "lock"
  /\ UNCHANGED <<graphVars, callVars, bufVars, playVars, mixVars, audio_clock,
                 sink_map_count,
                 listVars, decode_head, sent_end_of_q, abort_request, sink_map,
                 fileVars, sinkVars, apc, clear_node, calls, crashed, histVars, lockVars>>

\* Mutant of ShouldSignalEnd: the sent_end_of_q flag is not consulted.
ShouldSignalEnd_NoFlag == decode_head = Null

ShouldSignalEnd == decode_head = Null /\ ~sent_end_of_q

\* audioq_put: the sentinel does not count.
audioq_put(size, b) ==
  IF b = end_of_q_sentinel THEN size ELSE size + FrameBytes

\* lock; decode_head is NULL: every_sink_signal_end once, then about to wait.
WIdle ==
  /\ ~crashed /\ pc = "lock"
  /\ decode_head = Null
  /\ audioq' = [s \in Sinks |->
       IF ShouldSignalEnd /\ s \in MapSinks
         THEN QueuePut(audioq[s], q_abort[s], end_of_q_sentinel)
         ELSE audioq[s]]
  /\ ends' = [s \in Sinks |->
       IF ShouldSignalEnd /\ s \in MapSinks /\ ~q_abort[s]
         THEN ends[s] + 1 ELSE ends[s]]
  /\ audioq_size' = [s \in Sinks |->
       IF ShouldSignalEnd /\ s \in MapSinks /\ ~q_abort[s]
         THEN audioq_put(audioq_size[s], end_of_q_sentinel)
         ELSE audioq_size[s]]
  /\ sent_end_of_q' = TRUE
  /\ pc' = "wait_head"
  /\ UNCHANGED <<graphVars, callVars, bufVars, playVars, mixVars, audio_clock,
                 sink_map_count,
                 listVars, decode_head, abort_request, sink_map, fileVars,
                 min_audioq_size, q_abort, sink_playlist, spc,
                 apc, clear_node, calls, crashed, lastB, seekSince, watch,
                 cleared, lockVars>>

\* lock; decode_head is set: sent_end_of_q = 0, then the fullness check.
WCheck ==
  /\ ~crashed /\ pc = "lock"
  /\ decode_head # Null
  /\ sent_end_of_q' = FALSE
  /\ pc' = IF every_sink_full THEN "wait_drain" ELSE "decode"
  /\ UNCHANGED <<graphVars, callVars, bufVars, playVars, mixVars, audio_clock,
                 sink_map_count,
                 listVars, decode_head, abort_request, sink_map, fileVars,
                 sinkVars, apc, clear_node, calls, crashed, histVars, lockVars>>

\* pthread_cond_wait: releases decode_head_mutex and blocks.
WWait ==
  /\ ~crashed /\ pc \in {"wait_head", "wait_drain"}
  /\ pc' = IF pc = "wait_head" THEN "blocked_head" ELSE "blocked_drain"
  /\ UNCHANGED <<graphVars, callVars, bufVars, playVars, mixVars, audio_clock,
                 sink_map_count,
                 listVars, decode_head, sent_end_of_q, abort_request, sink_map,
                 fileVars, sinkVars, apc, clear_node, calls, crashed, histVars, lockVars>>

\* pthread_cond_wait may return without a signal.
WSpurious ==
  /\ ~crashed /\ pc \in {"blocked_head", "blocked_drain"}
  /\ pc' = "top"
  /\ UNCHANGED <<graphVars, callVars, bufVars, playVars, mixVars, audio_clock,
                 sink_map_count,
                 listVars, decode_head, sent_end_of_q, abort_request, sink_map,
                 fileVars, sinkVars, apc, clear_node, calls, crashed, histVars, lockVars>>

\* Mutant of NextDecodeHead: the end of an item does not advance the head.
NextDecodeHead_Stay(d) == d

\* p->decode_head = p->decode_head->next
NextDecodeHead(d) == next[d]

\* Mutant of AdvanceSeekFlush: the advance asks for the queues to be flushed.
AdvanceSeekFlush_Set == TRUE

\* next_f->seek_flush = 0 in the advance to the next item.
AdvanceSeekFlush == FALSE

\* Mutant of ReadAfterPause: av_read_play starts the file over.
ReadAfterPause_Rewind(pos, was, now) == IF was /\ ~now THEN 0 ELSE pos

\* The read position of a file after the pause handling of decode_one_frame:
\* av_read_pause and av_read_play act on network streams, a file is read on
\* from where it was.
ReadAfterPause(pos, was, now) == pos

\* Mutant of FlushOnSeek: a seek leaves the queues as they are.
FlushOnSeek_Never(d, seek_ok) == FALSE

\* if (av_seek_frame(..) < 0) log; else if (f->seek_flush) every_sink_flush
FlushOnSeek(d, seek_ok) == seek_ok /\ seek_flush[d]

\* decode_one_frame on decode_head's file, then the advance at end of item.
\* The graph is built without a failure here; a frame written to a graph that
\* a failed build has left behind is an error return or a fault.
WDecode ==
  /\ ~crashed /\ pc = "decode"
  /\ \A s \in MapSinks : Len(audioq[s]) <= MaxQueue
  /\ \E fault \in UseAfterFree(decode_head),
        seek_ok \in (IF seek_pos[decode_head] >= 0 THEN BOOLEAN ELSE {TRUE}),
        badgraph \in (IF maybe_init_filter_graph(decode_head) \/ graph_configured
                        THEN {FALSE} ELSE BOOLEAN) :
     LET d == decode_head
         rebuild == maybe_init_filter_graph(d)
         built == rebuild \/ graph_configured
         seeking == seek_pos[d] >= 0
         pos1 == IF seeking /\ seek_ok THEN seek_pos[d]
                 ELSE ReadAfterPause(rpos[d], last_paused, paused)
         flush == seeking /\ FlushOnSeek(d, seek_ok)
         eof1 == IF seeking THEN FALSE ELSE eof[d]
         q1 == [s \in Sinks |->
                  IF flush /\ s \in MapSinks THEN <<>> ELSE audioq[s]]
         size1 == [s \in Sinks |->
                  IF flush /\ s \in MapSinks
                    THEN audioq_size[s] - SumBytes(audioq[s])
                    ELSE audioq_size[s]]
         done == eof1
         frame == ~eof1 /\ pos1 < FileLen
         buf == [item |-> d, pos |-> pos1]
         \* audio_decode_frame pulls from each entry's abuffersink_ctx in map
         \* order: the entries before the first NULL one get the buffer
         ctx1 == IF rebuild
                   THEN [k \in DOMAIN sink_map |-> TRUE] ELSE abuffersink_ctx
         nullctx == {k \in DOMAIN sink_map : ~ctx1[k]}
         reached == {k \in DOMAIN sink_map : \A n \in nullctx : k < n}
         \* one groove_queue_put per stack item of a reached entry
         puts == [s \in Sinks |->
                   IF frame /\ built /\ ~q_abort[s]
                     THEN Cardinality({e \in reached \X (1..MaxAttach) :
                            /\ e[2] \in DOMAIN sink_map[e[1]]
                            /\ sink_map[e[1]][e[2]] = s})
                     ELSE 0]
         gets == {s \in Sinks : puts[s] > 0}
         nd == NextDecodeHead(d)
         sp1 == IF seeking THEN [seek_pos EXCEPT ![d] = -1] ELSE seek_pos
     IN
     IF fault
     THEN /\ crashed' = TRUE
          /\ UNCHANGED <<fileVars, decode_head, audioq, audioq_size, lastB,
                         seekSince, pc, graphVars, last_paused, read_paused,
                         filter_volume,
                         volume_ctx,
                         graph_configured, audio_clock, unref_sentinel>>
     ELSE
     /\ unref_sentinel' =
          (unref_sentinel
             \/ (flush /\ \E s \in MapSinks : UnrefsSentinel(audioq[s])))
     /\ filter_graph' = TRUE
     /\ rebuild_filter_graph_flag' =
          IF rebuild THEN FALSE ELSE rebuild_filter_graph_flag
     /\ in_format' = IF rebuild THEN ItemFormat(d) ELSE in_format
     /\ filter_volume' = IF rebuild THEN PVolume(d) ELSE filter_volume
     /\ volume_ctx' = IF rebuild THEN VolumeNode(PVolume(d)) ELSE volume_ctx
     /\ graph_configured' = built
     /\ abuffersink_ctx' = ctx1
     /\ last_paused' = paused
     /\ read_paused' = IF paused # last_paused
                         THEN [read_paused EXCEPT ![d] = paused]
                         ELSE read_paused
     /\ seek_pos' = IF done /\ nd # Null THEN [sp1 EXCEPT ![nd] = 0] ELSE sp1
     /\ seek_flush' = IF done /\ nd # Null
                        THEN [seek_flush EXCEPT ![nd] = AdvanceSeekFlush]
                        ELSE seek_flush
     /\ eof' = [eof EXCEPT ![d] = eof1 \/ pos1 >= FileLen]
     /\ rpos' = [rpos EXCEPT ![d] = IF frame THEN pos1 + 1 ELSE pos1]
     /\ audio_clock' = IF frame THEN [audio_clock EXCEPT ![d] = pos1]
                       ELSE audio_clock
     /\ decode_head' = IF done THEN nd ELSE d
     /\ audioq' = [s \in Sinks |-> q1[s] \o [j \in 1..puts[s] |-> buf]]
     /\ audioq_size' = [s \in Sinks |-> size1[s] + puts[s] * FrameBytes]
     /\ lastB' = [s \in Sinks |-> IF s \in gets THEN buf ELSE lastB[s]]
     /\ seekSince' = [s \in Sinks |->
                     IF s \in gets THEN FALSE ELSE seekSince[s]]
     /\ pc' = IF frame /\ (badgraph \/ (built /\ nullctx # {}))
                THEN pc ELSE "top"
     /\ crashed' = (frame /\ (badgraph \/ (built /\ nullctx # {})))
     /\ null_ctx_pull' = (frame /\ built /\ nullctx # {})
  /\ UNCHANGED <<sink_ret, freed_node_read, bufVars, paused, last_play_call,
                 volume, gain,
                 sink_map_count, listVars, sent_end_of_q, abort_request,
                 sink_map, min_audioq_size, q_abort, sink_playlist, spc,
                 apc, clear_node, calls, ends, watch, cleared, lockVars>>

\* A decode step whose init_filter_graph fails: at avfilter_graph_alloc, at
\* the creation of the abuffer filter, or at avfilter_graph_config.  The old
\* graph is freed first; in_sample_rate .. in_time_base are stored before
\* the abuffer filter is created and filter_volume right after it.
\* decode_one_frame returns -1 and decode_thread goes to the next item.
WBuildFails ==
  /\ ~crashed /\ pc = "decode"
  /\ decode_head \in live
  /\ maybe_init_filter_graph(decode_head)
  /\ LET d == decode_head
         nd == NextDecodeHead(d)
     IN \E stage \in {"alloc", "abuffer", "config"} :
        /\ filter_graph' = (stage # "alloc")
        /\ in_format' = IF stage = "alloc" THEN in_format ELSE ItemFormat(d)
        /\ filter_volume' = IF stage = "config" THEN PVolume(d)
                            ELSE filter_volume
        /\ volume_ctx' = IF stage = "config" THEN VolumeNode(PVolume(d))
                         ELSE volume_ctx
        /\ abuffersink_ctx' = IF stage = "config"
                                THEN [k \in DOMAIN sink_map |-> TRUE]
                                ELSE abuffersink_ctx
        /\ graph_configured' = FALSE
        /\ decode_head' = nd
        /\ seek_pos' = IF nd # Null THEN [seek_pos EXCEPT ![nd] = 0]
                       ELSE seek_pos
        /\ seek_flush' = IF nd # Null
                           THEN [seek_flush EXCEPT ![nd] = AdvanceSeekFlush]
                           ELSE seek_flush
        /\ pc' = "top"
  /\ UNCHANGED <<listVars, sent_end_of_q, abort_request, sink_map, eof, rpos,
                 sinkVars, apc, clear_node, calls, crashed, histVars,
                 rebuild_filter_graph_flag, null_ctx_pull, callVars, bufVars,
                 playVars, volume, gain, audio_clock, sink_map_count, lockVars>>

\* groove_playlist_play, groove_playlist_pause: no lock is taken.
groove_playlist_play ==
  /\ ~crashed /\ apc = "idle"
  /\ paused' = FALSE
  /\ last_play_call' = "play"
  /\ UNCHANGED <<listVars, decode_head, sent_end_of_q, abort_request, sink_map,
                 fileVars, sinkVars, ctlVars, histVars, graphVars, callVars,
                 bufVars, last_paused, read_paused, mixVars, audio_clock,
                 sink_map_count, lockVars>>

\* Mutant of groove_playlist_pause: the flag is flipped.
groove_playlist_pause_Flip ==
  /\ ~crashed /\ apc = "idle"
  /\ paused' = ~paused
  /\ last_play_call' = "pause"
  /\ UNCHANGED <<listVars, decode_head, sent_end_of_q, abort_request, sink_map,
                 fileVars, sinkVars, ctlVars, histVars, graphVars, callVars,
                 bufVars, last_paused, read_paused, mixVars, audio_clock,
                 sink_map_count, lockVars>>

groove_playlist_pause ==
  /\ ~crashed /\ apc = "idle"
  /\ paused' = TRUE
  /\ last_play_call' = "pause"
  /\ UNCHANGED <<listVars, decode_head, sent_end_of_q, abort_request, sink_map,
                 fileVars, sinkVars, ctlVars, histVars, graphVars, callVars,
                 bufVars, last_paused, read_paused, mixVars, audio_clock,
                 sink_map_count, lockVars>>

groove_playlist_playing == ~paused

groove_playlist_set_volume(v) ==
  /\ CanLock /\ apc = "idle"
  /\ calls > 0 /\ calls' = calls - 1
  /\ volume' = v
  /\ UNCHANGED <<listVars, decode_head, sent_end_of_q, abort_request, sink_map,
                 fileVars, sinkVars, pc, apc, clear_node, crashed, histVars,
                 graphVars, callVars, bufVars, playVars, filter_volume,
                 graph_configured, gain, volume_ctx, audio_clock,
                 sink_map_count, lockVars>>

groove_playlist_set_gain(item, g) ==
  /\ CanLock /\ apc = "idle"
  /\ calls > 0 /\ calls' = calls - 1
  /\ gain' = [gain EXCEPT ![item] = g]
  /\ UNCHANGED <<listVars, decode_head, sent_end_of_q, abort_request, sink_map,
                 fileVars, sinkVars, pc, apc, clear_node, crashed, histVars,
                 graphVars, callVars, bufVars, playVars, volume, filter_volume,
                 graph_configured, volume_ctx, audio_clock, sink_map_count, lockVars>>

\* groove_playlist_position(playlist, &item, &seconds), decode_head_mutex
\* held: what it stores to *item, whether it stores to *seconds, and what.
groove_playlist_position ==
  [item |-> decode_head,
   seconds_set |-> decode_head # Null,
   seconds |-> IF decode_head # Null THEN audio_clock[decode_head] ELSE Null]

Next ==
  \/ \E nx \in live \cup {Null} : groove_playlist_insert(nx)
  \/ \E item \in live : groove_playlist_remove(item)
  \/ \E item \in live \cap ListItems, ts \in 0..(FileLen - 1) :
       groove_playlist_seek(item, ts)
  \/ groove_playlist_clear
  \/ ClearStep
  \/ DestroyClear
  \/ DestroyAbort
  \/ DestroyJoin
  \/ DestroyDetach
  \/ \E s \in Sinks : AttachMap(s)
  \/ \E s \in Sinks : AttachFinish(s)
  \/ \E s \in Sinks : DetachFlush(s)
  \/ \E s \in Sinks : DetachMap(s)
  \/ \E s \in Sinks : groove_sink_buffer_get(s)
  \/ WTop
  \/ WIdle
  \/ WCheck
  \/ WWait
  \/ WSpurious
  \/ WDecode

Spec == Init /\ [][Next]_vars
SpecFill == InitFill /\ [][Next]_vars
SpecDeep == InitDeep /\ [][Next]_vars

\* ------------------------------------ one buffer through the fan-out
\* The stacks a sink-map entry can hold: sinks of equal format, none twice.
RefGroups ==
  {g \in UNION {[1..n -> AllSinks] : n \in 1..MaxGroup} :
     /\ \A j, k \in DOMAIN g : j # k => g[j] # g[k]
     /\ \A j, k \in DOMAIN g : sink_formats_equal(g[j], g[k])}

\* groove_buffer_ref and groove_buffer_unref (buffer.c): the count goes up
\* or down by one under the buffer's mutex; the unref that reaches zero
\* releases the frame.
BufferRef(c) == c + 1
BufferUnref(c) == c - 1
Released(c) == IF BufferUnref(c) = 0 THEN 1 ELSE 0

\* What the steps below leave alone.
OnlyBuffer ==
  UNCHANGED <<listVars, decode_head, sent_end_of_q, abort_request, sink_map,
              fileVars, sinkVars, ctlVars, histVars, graphVars, callVars,
              playVars, mixVars, audio_clock, sink_map_count, lockVars>>

\* The worker or a consumer touches the buffer: after its release that is a
\* use after free, and nothing is known of the run from there on.
BufAccess(step) ==
  /\ ~buf_uaf
  /\ IF buf_freed > 0
       THEN /\ buf_uaf' = TRUE
            /\ UNCHANGED <<buf_pc, buf_stack, ref_count, buf_queued, buf_held,
                           buf_aborted, buf_freed, lockVars>>
       ELSE buf_uaf' = FALSE /\ step
  /\ OnlyBuffer

\* frame_to_groove_buffer: av_mallocz leaves ref_count 0; stack_item is set
\* to the stack head of the map entry.
BufCreate ==
  /\ ~buf_uaf /\ buf_pc = "none"
  /\ \E g \in RefGroups : buf_stack' = g
  /\ buf_pc' = "hold"
  /\ UNCHANGED <<ref_count, buf_queued, buf_held, buf_aborted, buf_freed,
                 buf_uaf, lockVars>>
  /\ OnlyBuffer

AfterStackItem(rest) == IF rest = <<>> THEN "release" ELSE "ref"

\* Mutant of BufHold: the worker takes no reference of its own.
BufHold_NoRef ==
  /\ buf_pc = "hold"
  /\ BufAccess(/\ buf_pc' = AfterStackItem(buf_stack)
               /\ UNCHANGED <<ref_count, buf_stack, buf_queued, buf_held,
                              buf_aborted, buf_freed, lockVars>>)

\* "we hold this reference to avoid cleanups until at least this loop is
\* done": groove_buffer_ref before the loop over the stack.
BufHold ==
  /\ buf_pc = "hold"
  /\ BufAccess(/\ ref_count' = BufferRef(ref_count)
               /\ buf_pc' = AfterStackItem(buf_stack)
               /\ UNCHANGED <<buf_stack, buf_queued, buf_held, buf_aborted,
                              buf_freed, lockVars>>)

\* groove_buffer_ref before groove_queue_put.
BufRefForPut ==
  /\ buf_pc = "ref"
  /\ BufAccess(/\ ref_count' = BufferRef(ref_count)
               /\ buf_pc' = "put"
               /\ UNCHANGED <<buf_stack, buf_queued, buf_held, buf_aborted,
                              buf_freed, lockVars>>)

\* groove_queue_put into the queue of stack_item->sink; it fails on an
\* aborted queue.
BufPut ==
  /\ buf_pc = "put"
  /\ LET s == Head(buf_stack)
         ok == QueuePut(<<>>, s \in buf_aborted, s) # <<>>
     IN BufAccess(/\ buf_queued' = IF ok THEN buf_queued \cup {s} ELSE buf_queued
                  /\ buf_stack' = IF ok THEN Tail(buf_stack) ELSE buf_stack
                  /\ buf_pc' = IF ok THEN AfterStackItem(Tail(buf_stack))
                               ELSE "unref"
                  /\ UNCHANGED <<ref_count, buf_held, buf_aborted, buf_freed, lockVars>>)

\* groove_buffer_unref after a failed put, then stack_item = stack_item->next.
BufPutFailed ==
  /\ buf_pc = "unref"
  /\ BufAccess(/\ ref_count' = BufferUnref(ref_count)
               /\ buf_freed' = buf_freed + Released(ref_count)
               /\ buf_stack' = Tail(buf_stack)
               /\ buf_pc' = AfterStackItem(Tail(buf_stack))
               /\ UNCHANGED <<buf_queued, buf_held, buf_aborted, lockVars>>)

\* groove_buffer_unref after the loop.
BufRelease ==
  /\ buf_pc = "release"
  /\ BufAccess(/\ ref_count' = BufferUnref(ref_count)
               /\ buf_freed' = buf_freed + Released(ref_count)
               /\ buf_pc' = "done"
               /\ UNCHANGED <<buf_stack, buf_queued, buf_held, buf_aborted, lockVars>>)

\* groove_sink_buffer_get hands the buffer to the consumer of s, reference
\* included: audioq_get does not touch the count.
ConsumerGet(s) ==
  /\ s \in buf_queued /\ s \notin buf_aborted
  /\ BufAccess(/\ buf_queued' = buf_queued \ {s}
               /\ buf_held' = buf_held \cup {s}
               /\ UNCHANGED <<buf_pc, buf_stack, ref_count, buf_aborted,
                              buf_freed, lockVars>>)

\* The consumer is done with the buffer: groove_buffer_unref.
ConsumerUnref(s) ==
  /\ s \in buf_held
  /\ BufAccess(/\ ref_count' = BufferUnref(ref_count)
               /\ buf_freed' = buf_freed + Released(ref_count)
               /\ buf_held' = buf_held \ {s}
               /\ UNCHANGED <<buf_pc, buf_stack, buf_queued, buf_aborted, lockVars>>)

\* audioq_cleanup: groove_buffer_unref of a buffer the queue drops.
QueueCleanup(s) ==
  IF s \in buf_queued
    THEN /\ ref_count' = BufferUnref(ref_count)
         /\ buf_freed' = buf_freed + Released(ref_count)
         /\ buf_queued' = buf_queued \ {s}
    ELSE UNCHANGED <<ref_count, buf_freed, buf_queued, lockVars>>

\* groove_sink_detach of s on another thread: groove_queue_abort and
\* groove_queue_flush, which runs audioq_cleanup on what the queue holds.
\* The detach of a sink that the buffer is neither queued at nor still to
\* be put to does not concern the buffer.
BufDetach(s) ==
  /\ s \notin buf_aborted
  /\ s \in buf_queued \cup Range(buf_stack)
  /\ IF s \in buf_queued
       THEN BufAccess(/\ buf_aborted' = buf_aborted \cup {s}
                      /\ QueueCleanup(s)
                      /\ UNCHANGED <<buf_pc, buf_stack, buf_held>>)
       ELSE /\ ~buf_uaf
            /\ buf_aborted' = buf_aborted \cup {s}
            /\ UNCHANGED <<buf_pc, buf_stack, ref_count, buf_queued, buf_held,
                           buf_freed, buf_uaf, lockVars>>
            /\ OnlyBuffer

\* groove_playlist_remove of the buffer's item: purge_sink runs
\* audioq_cleanup on the buffer; decode_head_mutex keeps it out of the
\* fan-out.
BufPurge(s) ==
  /\ buf_pc = "done" /\ s \in buf_queued
  /\ BufAccess(/\ QueueCleanup(s)
               /\ UNCHANGED <<buf_pc, buf_stack, buf_held, buf_aborted, lockVars>>)

NextRef ==
  \/ BufCreate
  \/ BufHold
  \/ BufRefForPut
  \/ BufPut
  \/ BufPutFailed
  \/ BufRelease
  \/ \E s \in AllSinks : ConsumerGet(s)
  \/ \E s \in AllSinks : ConsumerUnref(s)
  \/ \E s \in AllSinks : BufDetach(s)
  \/ \E s \in AllSinks : BufPurge(s)

InitRef == InitWith(0, {})
SpecRef == InitRef /\ [][NextRef]_vars

\* ------------------------------------ the sink calls on an idle playlist
\* Any MapSinkCount sinks, attached and detached in any order by callers
\* that check nothing, on a playlist without items whose worker has not
\* been scheduled yet.
InitMap ==
  \E sinks \in SUBSET AllSinks :
    Cardinality(sinks) = MapSinkCount /\ InitWith(0, sinks)

NextMap ==
  \/ \E s \in Sinks : AttachMap(s)
  \/ \E s \in Sinks : AttachAgain(s)
  \/ \E s \in Sinks : AttachFinish(s)
  \/ \E s \in Sinks : DetachNotAttached(s)
  \/ \E s \in Sinks : DetachFlush(s)
  \/ \E s \in Sinks : DetachMap(s)

SpecMap == InitMap /\ [][NextMap]_vars

\* ------------------------------------------- play and pause while decoding
\* Items are appended and played through to one sink that is attached and
\* never detached, with groove_playlist_play and groove_playlist_pause
\* called at any time.
InitPause == InitWith(PauseCalls, {"x"})

NextPause ==
  \/ groove_playlist_insert(Null)
  \/ groove_playlist_play
  \/ groove_playlist_pause
  \/ \E s \in Sinks : AttachMap(s)
  \/ \E s \in Sinks : AttachFinish(s)
  \/ \E s \in Sinks : groove_sink_buffer_get(s)
  \/ WTop
  \/ WIdle
  \/ WCheck
  \/ WWait
  \/ WSpurious
  \/ WDecode

SpecPause == InitPause /\ [][NextPause]_vars

\* ------------------------------------------ the filter graph and its cache
\* Items are appended and played to one sink while the volume is set and
\* builds of the filter graph may fail.
InitGraph == InitWith(GraphCalls, {"x"})

NextGraph ==
  \/ \E nx \in live \cup {Null} : groove_playlist_insert(nx)
  \/ \E v \in Volumes : groove_playlist_set_volume(v)
  \/ \E item \in live, g \in Gains : groove_playlist_set_gain(item, g)
  \/ \E s \in Sinks : AttachMap(s)
  \/ \E s \in Sinks : AttachFinish(s)
  \/ \E s \in Sinks : groove_sink_buffer_get(s)
  \/ WTop
  \/ WIdle
  \/ WCheck
  \/ WWait
  \/ WSpurious
  \/ WDecode
  \/ WBuildFails

SpecGraph == InitGraph /\ [][NextGraph]_vars

\* ------------------------------------- the fan-out of the decoded buffers
\* One item is played to two sinks of different formats that callers attach
\* in any order, also when they are attached already.
InitFan == InitWith(FanCalls, {"x", "y"})

NextFan ==
  \/ groove_playlist_insert(Null)
  \/ \E s \in Sinks : AttachMap(s)
  \/ \E s \in Sinks : AttachAgain(s)
  \/ \E s \in Sinks : AttachFinish(s)
  \/ \E s \in Sinks : groove_sink_buffer_get(s)
  \/ WTop
  \/ WIdle
  \/ WCheck
  \/ WWait
  \/ WSpurious
  \/ WDecode

SpecFan == InitFan /\ [][NextFan]_vars

\* ------------------------------------------------ the order of the locks
\* Each thread runs the pthread_mutex_lock and pthread_mutex_unlock calls of
\* one function after the other, in program order; a lock call waits while
\* another thread holds the mutex.  The worker runs decode_thread, the two
\* callers run groove_playlist_seek, groove_playlist_insert and
\* groove_playlist_remove on any file, at any time.
LockFiles == 1..LockFileCount

DecodeHeadMutex == <<"decode_head_mutex", Null>>

SeekMutex(f) == <<"seek_mutex", f>>

LockOf(m) == <<"lock", m>>

UnlockOf(m) == <<"unlock", m>>

groove_playlist_seek_Locks_Reversed(f) ==
  <<LockOf(SeekMutex(f)), LockOf(DecodeHeadMutex),
    UnlockOf(SeekMutex(f)), UnlockOf(DecodeHeadMutex)>>

groove_playlist_seek_Locks(f) ==
  <<LockOf(DecodeHeadMutex), LockOf(SeekMutex(f)),
    UnlockOf(SeekMutex(f)), UnlockOf(DecodeHeadMutex)>>

\* first: the list is empty and the item becomes the decode head.
groove_playlist_insert_Locks(f, first) ==
  IF first
    THEN <<LockOf(DecodeHeadMutex), LockOf(SeekMutex(f)),
           UnlockOf(SeekMutex(f)), UnlockOf(DecodeHeadMutex)>>
    ELSE <<LockOf(DecodeHeadMutex), UnlockOf(DecodeHeadMutex)>>

groove_playlist_remove_Locks ==
  <<LockOf(DecodeHeadMutex), UnlockOf(DecodeHeadMutex)>>

\* One turn of the loop of decode_thread.  f = Null: it waits on a
\* condition, which releases decode_head_mutex and takes it again.
\* Otherwise decode_one_frame on file f, and nf # Null: the item has ended
\* and the seek of the next file nf to its start is requested.
decode_thread_Locks(f, nf) ==
  IF f = Null
    THEN <<LockOf(DecodeHeadMutex), UnlockOf(DecodeHeadMutex),
           LockOf(DecodeHeadMutex), UnlockOf(DecodeHeadMutex)>>
    ELSE <<LockOf(DecodeHeadMutex), LockOf(SeekMutex(f)), UnlockOf(SeekMutex(f))>>
         \o (IF nf = Null THEN <<>>
             ELSE <<LockOf(SeekMutex(nf)), UnlockOf(SeekMutex(nf))>>)
         \o <<UnlockOf(DecodeHeadMutex)>>

LockScripts(t) ==
  IF t = "worker"
    THEN {decode_thread_Locks(f, nf) :
            f \in LockFiles \cup {Null}, nf \in LockFiles \cup {Null}}
    ELSE {groove_playlist_seek_Locks(f) : f \in LockFiles}
         \cup {groove_playlist_insert_Locks(f, first) :
                 f \in LockFiles, first \in BOOLEAN}
         \cup {groove_playlist_remove_Locks}

MutexFree(m) == \A t \in LockThreads : m \notin lock_held[t]

\* A thread enters a function.
LockCall(t) ==
  /\ lock_todo[t] = <<>>
  /\ \E script \in LockScripts(t) :
       lock_todo' = [lock_todo EXCEPT ![t] = script]
  /\ UNCHANGED <<listVars, decode_head, sent_end_of_q, abort_request, sink_map,
                 fileVars, sinkVars, ctlVars, histVars, graphVars, callVars,
                 bufVars, playVars, mixVars, audio_clock, sink_map_count,
                 lock_held>>

\* A thread's next lock or unlock call returns.
LockStep(t) ==
  /\ lock_todo[t] # <<>>
  /\ LET call == Head(lock_todo[t])
         m == call[2]
     IN IF call[1] = "lock"
          THEN /\ MutexFree(m)
               /\ lock_held' = [lock_held EXCEPT ![t] = @ \cup {m}]
          ELSE lock_held' = [lock_held EXCEPT ![t] = @ \ {m}]
  /\ lock_todo' = [lock_todo EXCEPT ![t] = Tail(@)]
  /\ UNCHANGED <<listVars, decode_head, sent_end_of_q, abort_request, sink_map,
                 fileVars, sinkVars, ctlVars, histVars, graphVars, callVars,
                 bufVars, playVars, mixVars, audio_clock, sink_map_count>>

InitLock == InitWith(0, {})

NextLock ==
  \/ \E t \in LockThreads : LockCall(t)
  \/ \E t \in LockThreads : LockStep(t)

SpecLock == InitLock /\ [][NextLock]_vars

\* ------------------------------------------- the worker waiting for a sink
\* One item is inserted; sinks are attached and detached at any time and no
\* consumer reads.  The worker thread is scheduled whenever it can run; a
\* wait on a condition ends with its signal (a spurious return is possible,
\* never certain).
InitWait == InitWith(WaitCalls, {"x", "y"})

NextWait ==
  \/ groove_playlist_insert(Null)
  \/ \E s \in Sinks : AttachMap(s)
  \/ \E s \in Sinks : AttachFinish(s)
  \/ \E s \in Sinks : DetachFlush(s)
  \/ \E s \in Sinks : DetachMap(s)
  \/ WTop
  \/ WIdle
  \/ WCheck
  \/ WWait
  \/ WSpurious
  \/ WDecode

WorkerFair ==
  /\ WF_vars(WTop)
  /\ WF_vars(WIdle)
  /\ WF_vars(WCheck)
  /\ WF_vars(WWait)
  /\ WF_vars(WDecode)

SpecWait == InitWait /\ [][NextWait]_vars /\ WorkerFair

\* ------------------------------------------------------------- claims
IsBuffer(b) == b # end_of_q_sentinel /\ b # NoBuf
Below(s) == audioq_size[s] < min_audioq_size[s]

\* C1: once groove_playlist_remove(item) has returned, no attached sink's
\* queue holds a buffer whose item is the removed one, and none is put later.
C1_PurgeGuarantee ==
  \A s \in MapSinks : \A k \in DOMAIN audioq[s] :
    IsBuffer(audioq[s][k]) => audioq[s][k].item \in live

\* C2: after any inserts and removes the item list is a well-formed doubly
\* linked list: head.prev and tail.next are null, n.prev.next = n for every
\* non-head item and n.next.prev = n for every non-tail item.
C2_WellFormedList ==
  /\ (head = Null) = (tail = Null)
  /\ head # Null => prev[head] = Null
  /\ tail # Null => next[tail] = Null
  /\ \A n \in ListItems :
       /\ n # head => prev[n] # Null /\ next[prev[n]] = n
       /\ n # tail => next[n] # Null /\ prev[next[n]] = n

\* C3: decode_head is null or an item of the playlist's list, and never an
\* item that remove has freed.
C3_DecodeHeadInList ==
  decode_head = Null \/ (decode_head \in ListItems /\ decode_head \in live)

\* C4: decode_head is null only when nothing is left to decode: the worker
\* does not sit idle on a null decode_head while the list ends in an item
\* that was appended behind a completely decoded one and never reached.
NeverReached(i) == seek_pos[i] = -1 /\ rpos[i] = 0 /\ ~eof[i]

C4_NullOnlyWhenNothingLeft ==
  (decode_head = Null /\ pc = "blocked_head" /\ tail \in live)
    => ~(NeverReached(tail) /\ prev[tail] \in live /\ eof[prev[tail]])

\* C5: no lost wakeup: the worker is never blocked on sink_drain_cond with a
\* decode head while an attached sink is below its min_audioq_size and no
\* queue holds a buffer whose get would signal the condition again.
C5_NoLostWakeup ==
  (pc = "blocked_drain" /\ decode_head # Null
     /\ \A s \in MapSinks : \A k \in DOMAIN audioq[s] : ~IsBuffer(audioq[s][k]))
    => ~\E s \in Attached : Below(s)

\* C6: groove_playlist_destroy terminates: once it has set abort_request and
\* signalled both conditions, the worker is never blocked in a wait.
C6_DestroyTerminates ==
  apc = "join" => pc \notin {"blocked_head", "blocked_drain"}

\* C7: after clear() the worker delivers the sentinel to every attached
\* sink: it never sits idle after a clear while a sink that has been
\* attached since before the last insert got no sentinel.
C7_SentinelAfterClear ==
  (cleared /\ decode_head = Null /\ pc = "blocked_head" /\ sent_end_of_q)
    => \A s \in watch : ends[s] = 1

\* C8: the sentinel is put to a sink only while decode_head is null, a sink
\* gets at most one sentinel until decode_head is non-null again, and a
\* buffer is put only while decode_head is non-null and no sentinel was put
\* since it became non-null (the sentinel follows the last item's buffers).
PutBuffer(s) == lastB'[s] # lastB[s] \/ (seekSince[s] /\ ~seekSince'[s])

InOrder(a, b) ==
  IF a.item = b.item THEN a.pos <= b.pos
  ELSE (a.item \in ListItems /\ b.item \in ListItems) => b.item \in After(a.item)

C9_Monotonic ==
  [][\A s \in Sinks :
       (lastB'[s] # lastB[s] /\ IsBuffer(lastB[s]))
         => InOrder(lastB[s], lastB'[s])]_vars

\* C9 (amended): the same for any two buffers put to a sink with no call of
\* groove_playlist_seek between them.
C9_MonotonicBetweenSeeks ==
  [][\A s \in Sinks :
       (lastB'[s] # lastB[s] /\ IsBuffer(lastB[s]) /\ ~seekSince[s])
         => InOrder(lastB[s], lastB'[s])]_vars

C9_Witness ==
  \E s \in Attached : \E i \in ListItems :
    /\ ~seekSince[s] /\ next[i] # Null
    /\ audioq[s] = <<[item |-> i, pos |-> FileLen - 1],
                     [item |-> next[i], pos |-> 0]>>

\* C10: the worker starts a decode step only with a decode head and at least
\* one attached sink below its min_audioq_size; with every attached sink at
\* or above it, the worker goes to wait on sink_drain_cond instead.
C10_Backpressure ==
  /\ [](pc = "decode" => decode_head # Null /\ \E s \in MapSinks : Below(s))
  /\ [][(pc = "lock" /\ pc' # "lock" /\ decode_head # Null
           /\ \A s \in MapSinks : ~Below(s)) => pc' = "wait_drain"]_vars

C10_Witness ==
  /\ pc = "decode"
  /\ {"x", "y"} \subseteq Attached
  /\ ~Below("y") /\ Below("x")

\* C11: with fill mode any_sink_full the worker starts no decode step while
\* any one attached sink is at or above its min_audioq_size.  decode_thread
\* has one fill predicate, every_sink_full, and the playlist has no fill
\* mode to select: this is the worker's behaviour for every caller.
C11_AnySinkFull ==
  pc = "decode" => \A s \in MapSinks : Below(s)

\* C12: attach and detach request a rebuild of the filter graph, and the next
\* decode step rebuilds it before pulling any frame, so the worker never
\* pulls frames for a group whose terminal node is not in the current graph.
C12_GraphCurrent ==
  ~null_ctx_pull

\* C13: every sink in the sink map has sink.playlist set to the playlist, so
\* audioq_get, audioq_purge and purge_sink, which the worker and the queue
\* run on the sinks of the map, never dereference a null playlist.
C13_MapSinkHasPlaylist ==
  \A s \in MapSinks : sink_playlist[s]

\* C14 (as claimed): a buffer's ref_count is the number of queues that hold
\* it plus the number of consumers that hold it, plus one while the worker
\* is distributing it.
Distributing == buf_pc \in {"ref", "put", "unref", "release"}
BufferExists == buf_pc \notin {"none", "hold"}

C14_RefCountExact ==
  BufferExists =>
    ref_count = Cardinality(buf_queued) + Cardinality(buf_held)
                  + (IF Distributing THEN 1 ELSE 0)

\* C14 (amended): the count is one more than that from groove_buffer_ref
\* before a put until the put has returned or the unref after its failure
\* is done; it is at least 1 while a queue holds the buffer, the frame is
\* released once, by the unref that reaches zero, and nobody uses the buffer
\* after that.
PutPending == buf_pc \in {"put", "unref"}

C14_RefCount ==
  /\ ~buf_uaf
  /\ BufferExists =>
       /\ ref_count = Cardinality(buf_queued) + Cardinality(buf_held)
                        + (IF Distributing THEN 1 ELSE 0)
                        + (IF PutPending THEN 1 ELSE 0)
       /\ buf_queued # {} => ref_count >= 1
       /\ buf_freed = (IF ref_count = 0 THEN 1 ELSE 0)

\* A consumer has got the buffer from the first sink of the stack while the
\* worker is putting it into the second.
C14_Witness ==
  /\ buf_pc = "put" /\ Len(buf_stack) = 1
  /\ buf_queued = {} /\ buf_held # {} /\ buf_aborted = {}
  /\ ref_count = 3 /\ buf_freed = 0

\* C15: two sinks of the sink map are in the same group if and only if
\* their buffer_sample_count is equal and either both disable resampling or
\* neither does and sample_rate, channel_layout and sample_fmt are equal;
\* no two groups hold equivalent formats.
SameGroup(a, b) == \E k \in DOMAIN sink_map : {a, b} \subseteq Range(sink_map[k])

FormatsMatch(a, b) ==
  /\ SinkConf[a].buffer_sample_count = SinkConf[b].buffer_sample_count
  /\ \/ SinkConf[a].disable_resample /\ SinkConf[b].disable_resample
     \/ /\ ~SinkConf[a].disable_resample /\ ~SinkConf[b].disable_resample
        /\ <<SinkConf[a].sample_rate, SinkConf[a].channel_layout,
             SinkConf[a].sample_fmt>>
             = <<SinkConf[b].sample_rate, SinkConf[b].channel_layout,
                 SinkConf[b].sample_fmt>>

C15_Groups ==
  /\ \A a, b \in MapSinks : SameGroup(a, b) <=> FormatsMatch(a, b)
  /\ \A j, k \in DOMAIN sink_map :
       j # k => \A a \in Range(sink_map[j]), b \in Range(sink_map[k]) :
                  ~FormatsMatch(a, b)

\* Two sinks that disable resampling share a group whatever their formats.
C15_Witness ==
  /\ {"u", "v"} \subseteq Attached
  /\ SameGroup("u", "v")
  /\ SinkConf["u"].sample_rate # SinkConf["v"].sample_rate

\* C16: attaching a sink that is attached fails and changes nothing: a sink
\* is in the sink map once at most.
TimesInMap(s) == Cardinality({k \in DOMAIN MapSeq : MapSeq[k] = s})

C16_AttachedOnce ==
  \A s \in Sinks : TimesInMap(s) <= 1

\* C17: once groove_sink_detach(s) has returned 0 the sink is in no group,
\* its queue is empty and its audioq_size is zero, until the next attach.
C17_DetachedSinkGone ==
  \A s \in Sinks :
    (sink_ret[s] = <<"detach", 0>> /\ spc[s] = "idle" /\ ~sink_playlist[s])
      => s \notin MapSinks /\ audioq[s] = <<>> /\ audioq_size[s] = 0

\* C18: groove_sink_detach on a sink that is not attached returns -1 and
\* changes nothing: not the sink's queue, its abort status or the sink map;
\* no detach of a sink without playlist gets as far as the queue.
C18_DetachNotAttached ==
  /\ [][\A s \in Sinks :
         (sink_ret'[s] # sink_ret[s] /\ sink_ret'[s][1] = "detach"
            /\ ~sink_playlist[s])
           => /\ sink_ret'[s] = <<"detach", -1>>
              /\ UNCHANGED <<sink_map, sinkVars, abuffersink_ctx, pc>>]_vars
  /\ [](\A s \in Sinks : spc[s] = "detach" => sink_playlist[s])

\* A detach of a sink that is not attached has returned -1 while another
\* sink is attached.
C18_Witness ==
  \E s \in Sinks, t \in Attached :
    sink_ret[s] = <<"detach", -1>> /\ s \notin MapSinks /\ ~q_abort[s]

\* C19: a consumer in a blocking groove_sink_buffer_get on an empty queue
\* returns GROOVE_BUFFER_NO once the playlist is destroyed: destroy is never
\* stuck in its join, the worker blocked, while an attached sink's queue is
\* empty and not aborted.
ConsumerBlocked(s) == audioq[s] = <<>> /\ ~q_abort[s]

C19_ConsumerReleased ==
  (apc = "join" /\ pc \in {"blocked_head", "blocked_drain"})
    => \A s \in Attached : ~ConsumerBlocked(s)

\* C20: groove_playlist_destroy leaves the sink map empty and every sink
\* that was attached detached (playlist null, queue aborted and empty), and
\* its traversal never reads a sink-map node that a detach has freed.
WasAttached(s) == sink_ret[s] \in {<<"attach", 0>>, <<"detach", 0>>}

C20_DestroyDetachesAll ==
  /\ ~freed_node_read
  /\ apc = "destroyed" =>
       /\ sink_map = <<>>
       /\ \A s \in Sinks :
            (WasAttached(s) /\ spc[s] = "idle")
              => ~sink_playlist[s] /\ q_abort[s] /\ audioq[s] = <<>>

\* ------------------------------------------------- claims C21 .. C30
\* C21: groove_playlist_remove of the item at decode_head whose successor
\* is B leaves B's file about to be read from its beginning: either a seek
\* to 0 is requested on it or it was never read, so that the next buffer
\* produced is B's with pos 0.
C21_RemoveRestartsNext ==
  [][\A item \in live :
       (groove_playlist_remove(item) /\ item = decode_head
          /\ next[item] # Null /\ ~crashed')
       => LET b == next[item] IN
          \/ seek_pos'[b] = 0
          \/ seek_pos'[b] = -1 /\ rpos'[b] = 0 /\ ~eof'[b]]_vars

C23_SeekIdempotent ==
  [][\A item \in live \cap ListItems, ts \in 0..(FileLen - 1) :
       (/\ groove_playlist_seek(item, ts)
        /\ seek_pos[item] = ts /\ seek_flush[item]
        /\ decode_head = item)
       => UNCHANGED <<listVars, decode_head, sent_end_of_q, abort_request,
                      sink_map, fileVars, sinkVars, pc, apc, clear_node,
                      crashed, graphVars>>]_vars

C23_Witness ==
  \E item \in ListItems :
    /\ calls = MaxCalls - 3 /\ nAlloc = 1 /\ apc = "idle"
    /\ decode_head = item /\ seek_pos[item] = FileLen - 1 /\ seek_flush[item]
    /\ \A s \in Sinks : seekSince[s]

\* C24: groove_playlist_playing is true exactly when the last call of
\* groove_playlist_play / groove_playlist_pause was a play, and initially
\* (so a repeated play or pause is as one); the two calls write paused and
\* nothing else: the list, decode_head, the files, the sink map, the sinks
\* and their queues, the graph and the worker are left as they were.
C24_PlayPause ==
  /\ [](groove_playlist_playing <=> last_play_call # "pause")
  /\ [][(paused' # paused \/ last_play_call' # last_play_call)
          => UNCHANGED <<listVars, decode_head, sent_end_of_q, abort_request,
                         sink_map, fileVars, sinkVars, ctlVars, graphVars,
                         last_paused, read_paused, mixVars, audio_clock,
                         sink_map_count>>]_vars

C24_Witness ==
  /\ ~groove_playlist_playing /\ last_play_call = "pause" /\ last_paused
  /\ decode_head # Null /\ \E s \in Attached : audioq[s] # <<>>

\* The buffer that follows buffer b in the stream of a list played through
\* from its head.
NextInStream(b) ==
  IF b = NoBuf THEN [item |-> head, pos |-> 0]
  ELSE IF b.pos + 1 < FileLen THEN [item |-> b.item, pos |-> b.pos + 1]
  ELSE [item |-> next[b.item], pos |-> 0]

\* C25: with groove_playlist_pause and groove_playlist_play called at any
\* time and no seek, every sink is delivered the stream of the run without
\* them: each buffer is the one that follows the buffer before it, none is
\* left out or repeated, and a sentinel only follows the last buffer of an
\* item.
C25_SameStream ==
  [][\A s \in Sinks :
       /\ PutBuffer(s) => lastB'[s] = NextInStream(lastB[s])
       /\ ends'[s] > ends[s]
            => IsBuffer(lastB[s]) /\ lastB[s].pos = FileLen - 1]_vars

C25_Witness ==
  \E s \in Attached :
    /\ last_play_call = "play" /\ groove_playlist_playing /\ last_paused
    /\ IsBuffer(lastB[s]) /\ lastB[s].item # head /\ pc = "decode"

\* C26: once groove_playlist_seek(item, seconds) has returned and until the
\* worker has carried the request out, groove_playlist_position reports that
\* item at the target of the seek, not the clock the file had before it.
C26_PositionAfterSeek ==
  \A i \in live :
    (CanLock /\ decode_head = i /\ seek_pos[i] >= 0 /\ seek_flush[i])
    => /\ groove_playlist_position.item = i
       /\ groove_playlist_position.seconds = seek_pos[i]

\* C27: groove_playlist_position stores to *seconds on every call, also
\* while decode_head is NULL.
C27_PositionAssigns == CanLock => groove_playlist_position.seconds_set

\* C28: after any sequence of attach and detach calls that returned success,
\* sink_map_count is the number of groups of the sink map, no group has an
\* empty stack, and every attached sink is in the map exactly once; a detach
\* of a sink that is not in the map returns -1 and leaves the map and the
\* count as they were.
C28_MapCount ==
  /\ [](/\ sink_map_count = Len(sink_map)
        /\ \A k \in DOMAIN sink_map : sink_map[k] # <<>>
        /\ \A s \in Sinks :
             (sink_playlist[s] /\ spc[s] = "idle") => TimesInMap(s) = 1)
  /\ [][\A s \in Sinks :
          (sink_ret'[s] # sink_ret[s] /\ s \notin MapSinks)
          => /\ sink_ret'[s] = <<"detach", -1>>
             /\ UNCHANGED <<sink_map, sink_map_count>>]_vars

\* C29: a decode step (re)builds the filter graph exactly when there is no
\* graph, or the rebuild flag is set, or the stream parameters of the file
\* differ from the cached ones, or the volume to apply differs from
\* filter_volume: the step then either fails its build or leaves a
\* configured graph with the cache at the file's parameters and the volume;
\* any other decode step leaves the graph and the cache as they were.
C29_RebuildWhenDue ==
  [][(pc = "decode" /\ pc' = "top" /\ decode_head \in live)
     => LET d == decode_head
            due == \/ ~filter_graph
                   \/ rebuild_filter_graph_flag
                   \/ in_format # ItemFormat(d)
                   \/ PVolume(d) # filter_volume
        IN IF due
           THEN \/ WBuildFails
                \/ /\ filter_graph' /\ graph_configured'
                   /\ ~rebuild_filter_graph_flag'
                   /\ in_format' = ItemFormat(d)
                   /\ filter_volume' = PVolume(d)
                   /\ \A k \in DOMAIN sink_map : abuffersink_ctx'[k]
           ELSE UNCHANGED <<filter_graph, rebuild_filter_graph_flag, in_format,
                            abuffersink_ctx, filter_volume,
                            graph_configured>>]_vars

C29_Witness ==
  \E s \in Attached :
    /\ filter_graph /\ graph_configured
    /\ volume = FullVolume - 1 /\ filter_volume = volume
    /\ IsBuffer(lastB[s]) /\ in_format = ItemFormat(lastB[s].item)
    /\ lastB[s].pos = FileLen - 1 /\ audioq[s] # <<>>

\* C30: a build of the graph that fails changes neither the cached input
\* format nor filter_volume nor the rebuild flag, so that every decode step
\* that does not fail its build runs through a graph that was configured.
C30_FailedBuildKeepsCache ==
  [][/\ WBuildFails
          => UNCHANGED <<in_format, filter_volume, rebuild_filter_graph_flag>>
     /\ (pc = "decode" /\ pc' = "top" /\ ~WBuildFails)
          => graph_configured']_vars

C33_ReadStateFollowsPause ==
  [][(pc = "decode" /\ pc' = "top" /\ decode_head \in live /\ ~WBuildFails)
     => read_paused'[decode_head] = paused]_vars

\* C34: a decode step puts the buffer of a group exactly once into the queue
\* of every sink of that group whose queue takes it (a put fails on an
\* aborted queue) and into no queue of a sink outside the map; apart from
\* that a queue only loses buffers, through get, flush or purge.
C34_FanOut ==
  [][\A s \in Sinks :
       /\ PutBuffer(s)
            => /\ audioq'[s] \in {Append(audioq[s], lastB'[s]), <<lastB'[s]>>}
               /\ s \in MapSinks
               /\ \A t \in Sinks :
                    (SameGroup(s, t) /\ ~q_abort[t])
                    => audioq'[t] \in {Append(audioq[t], lastB'[s]),
                                      <<lastB'[s]>>}
       /\ (~PutBuffer(s) /\ audioq'[s] # audioq[s])
            => \/ audioq[s] # <<>> /\ audioq'[s] = Tail(audioq[s])
               \/ audioq'[s] = <<>>
               \/ audioq'[s] = Append(audioq[s], end_of_q_sentinel)
               \/ \E i \in live :
                    audioq'[s] = SelectSeq(audioq[s],
                      LAMBDA b : b = end_of_q_sentinel \/ b.item # i)]_vars

\* C35: a sink's audioq_size is the byte count of the buffers in its queue
\* that are not the sentinel, whatever puts, gets, flushes and purges came
\* before; a step that only adds or takes sentinels leaves audioq_size as it
\* was, and the sentinel is never unreferenced.
QueueBytes(q) ==
  FrameBytes * Cardinality({j \in DOMAIN q : q[j] # end_of_q_sentinel})

SentinelsIn(q) == Cardinality({j \in DOMAIN q : q[j] = end_of_q_sentinel})

C35_SizeIsSum ==
  /\ [](\A s \in Sinks : audioq_size[s] = QueueBytes(audioq[s]))
  /\ [](~unref_sentinel)
  /\ [][\A s \in Sinks :
          (/\ SentinelsIn(audioq'[s]) # SentinelsIn(audioq[s])
           /\ QueueBytes(audioq'[s]) = QueueBytes(audioq[s]))
          => audioq_size'[s] = audioq_size[s]]_vars

\* The sentinel was put behind a buffer and counts for nothing.
C35_Witness ==
  \E s \in Sinks :
    /\ Len(audioq[s]) = 2
    /\ audioq[s][1] # end_of_q_sentinel /\ audioq[s][2] = end_of_q_sentinel
    /\ audioq_size[s] = FrameBytes

\* C36: no sentinel is put into a queue before the worker has seen a
\* decode_head that is not NULL: the flag that allows the sentinel is only
\* cleared by the worker at a set decode_head, and while the playlist has
\* had no item every sink has received neither a buffer nor a sentinel.
C36_NoEarlySentinel ==
  /\ [](nAlloc = 0
         => \A s \in Sinks :
              ends[s] = 0 /\ lastB[s] = NoBuf /\ audioq[s] = <<>>)
  /\ [][/\ (\E s \in Sinks : ends'[s] > ends[s]) => ~sent_end_of_q
        /\ (sent_end_of_q /\ ~sent_end_of_q')
             => pc = "lock" /\ decode_head # Null]_vars

\* The worker waits for an item next to an attached sink that got nothing.
C36_Witness ==
  /\ nAlloc = 0 /\ pc = "wait_head"
  /\ \E s \in Sinks : s \in MapSinks /\ sink_playlist[s] /\ audioq[s] = <<>>

\* C37: with a decode head and an empty sink map the worker takes no decode
\* step: no file is read and decode_head moves by API calls only; a sink
\* that is attached with room in its queue while there is a decode head is
\* eventually given a buffer, unless it is detached or the playlist runs out
\* first.
AwaitsBuffer(s) ==
  /\ s \in MapSinks /\ spc[s] = "idle" /\ sink_playlist[s]
  /\ min_audioq_size[s] > 0 /\ lastB[s] = NoBuf
  /\ decode_head # Null

C37_WaitsForSink ==
  /\ [](sink_map = <<>> => pc # "decode")
  /\ [][(sink_map = <<>> /\ decode_head # Null)
          => /\ rpos' = rpos /\ eof' = eof /\ audio_clock' = audio_clock
             /\ decode_head' = decode_head \/ calls' < calls \/ apc # "idle"]_vars
  /\ \A s \in {"x", "y"} :
       AwaitsBuffer(s)
         ~> (lastB[s] # NoBuf \/ ~AwaitsBuffer(s))

\* A step in which a thread takes the mutex of sink s's queue: put, get,
\* flush and purge work on the queue under the queue's own lock.
QueueMutexTaken(s) == audioq'[s] # audioq[s]

\* C38 (as claimed): decode_head_mutex and a queue's mutex are never held
\* together by one thread: a get does not wait for decode_head_mutex, and a
\* thread that holds decode_head_mutex (the worker in its decode step,
\* groove_playlist_remove) puts, flushes and purges nothing.
C38_NeverTogether ==
  /\ [](\A s \in Sinks :
          (~crashed /\ audioq[s] # <<>> /\ ~q_abort[s])
          => ENABLED groove_sink_buffer_get(s))
  /\ [][\A s \in Sinks :
          /\ (pc = "decode" /\ pc' = "top") => ~QueueMutexTaken(s)
          /\ (\E i \in live : groove_playlist_remove(i))
               => ~QueueMutexTaken(s)]_vars

\* C38 (amended): a queue's mutex is taken inside decode_head_mutex and never
\* the other way round: a get goes through while the worker holds
\* decode_head_mutex, and buffers and sentinels are put only by worker steps
\* that hold it.
C38_QueueInsideCoordinator ==
  /\ [](\A s \in Sinks :
          (WorkerHoldsMutex /\ ~crashed /\ audioq[s] # <<>> /\ ~q_abort[s])
          => ENABLED groove_sink_buffer_get(s))
  /\ [][\A s \in Sinks :
          (QueueMutexTaken(s) /\ (PutBuffer(s) \/ ends'[s] > ends[s]))
          => pc \in {"lock", "decode"} /\ pc' # pc]_vars

\* A consumer can get a buffer while the worker is inside a decode step.
C38_Witness ==
  /\ pc = "decode" /\ ~crashed
  /\ \E s \in Sinks : audioq[s] # <<>> /\ ~q_abort[s] /\ lastB[s] # NoBuf

\* C39: no thread asks for decode_head_mutex while it holds the seek_mutex
\* of a file, and the threads never block each other for good on these
\* locks: whenever a thread is inside a function, some thread's next lock or
\* unlock call can return.
RequestsLock(t, m) ==
  lock_todo[t] # <<>> /\ Head(lock_todo[t]) = LockOf(m)

HoldsSeekMutex(t) == \E f \in LockFiles : SeekMutex(f) \in lock_held[t]

C39_LockOrder ==
  /\ \A t \in LockThreads :
       RequestsLock(t, DecodeHeadMutex) => ~HoldsSeekMutex(t)
  /\ (\E t \in LockThreads : lock_todo[t] # <<>>)
       => \E t \in LockThreads : ENABLED LockStep(t)

\* A caller holds both locks while the worker and the other caller wait for
\* decode_head_mutex.
C39_Witness ==
  /\ lock_held["caller1"] = {DecodeHeadMutex, SeekMutex(1)}
  /\ RequestsLock("worker", DecodeHeadMutex)
  /\ RequestsLock("caller2", DecodeHeadMutex)

\* C40: groove_playlist_count is the number of items that were inserted and
\* not removed since, and each of them is reached from head by following
\* next.
C40_CountIsLive ==
  /\ groove_playlist_count = Cardinality(live)
  /\ ListItems = live

====
